---- MODULE Spec2Model ----
(***************************************************************************)
(* Model of accounting.py: the billing charge of a compute instance is     *)
(* derived from the instance's action history.  The three functions of the *)
(* file are modelled as operators computed the way the code computes them  *)
(* and as one action each; the cloud connection `conn` is the environment: *)
(* the action feed conn.compute.server_actions(instance_id) and the server *)
(* record conn.compute.get_server(instance_id).                            *)
(*                                                                         *)
(* Instants are integer ticks of TickSeconds seconds (half an hour), so    *)
(* that a duration need not be a whole number of hours.  A charge is the   *)
(* exact rational charge / ChargeUnit: the state multipliers are held in   *)
(* quarters (0.75 is 3, 0.5 is 2, 1 is 4) and the division by 3600 is kept *)
(* in the denominator, so nothing is rounded or truncated.                 *)
(***************************************************************************)
EXTENDS Integers, Sequences, FiniteSets

\* ---------------------------------------------------------------- bounds
MaxLen == 2
MaxTime == 3
MaxVcpus == 2

Times == 0..MaxTime
VcpuCounts == 1..MaxVcpus

\* The kinds the feed carries here, one of each class the code tells apart:
\* a create, a relevant kind that is not a create, and a noise event.
FeedKinds == {"create", "stop", "attachVolume"}

\* Flavor names as character sequences: family g3 (multiplier 2), family g3p
\* (multiplier 0) and a family the table does not list.
FlavorNames ==
  { <<"g", "3", ".", "s">>, <<"g", "3", "p", ".", "s">>, <<"z", "9", ".", "s">> }

\* ------------------------------------------------------- program constants
RELEVANT_EVENTS ==
  {"create", "delete", "pause", "resume", "shelve", "start", "stop", "suspend",
   "unpause", "unshelve"}

ACTION_TO_STATE_LOOKUP ==
  [k \in RELEVANT_EVENTS |->
     CASE k = "create" -> "active"
       [] k = "delete" -> "deleted"
       [] k = "pause" -> "suspended"
       [] k = "resume" -> "active"
       [] k = "shelve" -> "shelved_offloaded"
       [] k = "start" -> "active"
       [] k = "stop" -> "stopped"
       [] k = "suspend" -> "suspended"
       [] k = "unpause" -> "active"
       [] k = "unshelve" -> "active"]

States ==
  {"active", "deleted", "error", "not_yet_created", "paused", "resized",
   "shelved_offloaded", "stopped", "suspended"}

\* In quarters: 1 is 4, 0.75 is 3, 0.5 is 2.
STATE_CHARGE_MULTIPLIERS ==
  [s \in States |->
     CASE s = "active" -> 4
       [] s = "deleted" -> 0
       [] s = "error" -> 0
       [] s = "not_yet_created" -> 0
       [] s = "paused" -> 3
       [] s = "resized" -> 4
       [] s = "shelved_offloaded" -> 0
       [] s = "stopped" -> 2
       [] s = "suspended" -> 3]

FlavorTypes ==
  { <<"m", "3">>, <<"g", "3">>, <<"g", "3", "p">>, <<"r", "3">>, <<"p", "3">> }

FLAVOR_TYPE_CHARGE_MULTIPLIERS ==
  [f \in FlavorTypes |->
     CASE f = <<"m", "3">> -> 1
       [] f = <<"g", "3">> -> 2
       [] f = <<"g", "3", "p">> -> 0
       [] f = <<"r", "3">> -> 2
       [] f = <<"p", "3">> -> 1]

TickSeconds == 30 * 60
SecondsPerHour == 3600
\* total_charge is held as the numerator of a fraction over ChargeUnit.
ChargeUnit == SecondsPerHour * 4

\* ------------------------------------------------------------------ state
VARIABLES
  server_actions,  \* conn.compute.server_actions(instance_id): the raw feed
  server_created_at,  \* conn.compute.get_server(instance_id).created_at
  flavor,          \* the flavor get_server reported to the call, if it asked
  call,            \* the function called last, "none" before any call
  start, end,      \* the window of the call
  fetched,         \* whether the call fetched the action history
  actions,         \* what get_actions_for_instance returned to the call
  intervals,       \* what get_charge_intervals_for_instance returned
  total_charge,    \* what get_total_charge_for_instance returned
  err,             \* the exception the call ended with, "none" if it returned
  raised_in        \* the function that raised it

vars ==
  <<server_actions, server_created_at, flavor, call, start, end, fetched, actions,
    intervals, total_charge, err, raised_in>>

\* ------------------------------------------------- get_actions_for_instance
\* date_parser.parse(start_time + "Z"): the feed's naive time string read as
\* the UTC instant it names; an instant is its tick count.
ParseFeed(feed) ==
  [i \in 1..Len(feed) |-> [action |-> feed[i].action, time |-> feed[i].start_time]]

FilterRelevant(acts) == SelectSeq(acts, LAMBDA a : a.action \in RELEVANT_EVENTS)

\* list.sort(key=time) is stable: an element goes after every element already
\* placed whose time is less than or equal to its own.
RECURSIVE InsertByTime(_, _)
InsertByTime(sorted, a) ==
  IF sorted = <<>> THEN <<a>>
  ELSE IF sorted[Len(sorted)].time <= a.time THEN Append(sorted, a)
  ELSE Append(InsertByTime(SubSeq(sorted, 1, Len(sorted) - 1), a),
              sorted[Len(sorted)])

RECURSIVE SortByTime(_)
SortByTime(acts) ==
  IF acts = <<>> THEN <<>>
  ELSE InsertByTime(SortByTime(SubSeq(acts, 1, Len(acts) - 1)), acts[Len(acts)])

\* WithCreate with the test for an existing create left out.
WithCreateAlways(acts, created_at) ==
  <<[action |-> "create", time |-> created_at]>> \o acts

\* "If the instance has no create event, put one in".
WithCreate(acts, created_at) ==
  IF acts[1].action # "create"
  THEN <<[action |-> "create", time |-> created_at]>> \o acts
  ELSE acts

\* get_actions_for_instance with the create test guarded against an empty list.
get_actions_guarded(feed, created_at) ==
  LET acts == SortByTime(FilterRelevant(ParseFeed(feed)))
  IN [err |-> "none", raised_in |-> "none",
      actions |-> IF acts = <<>> THEN acts ELSE WithCreate(acts, created_at)]

\* The outcome of get_actions_for_instance: actions[0] of an empty list
\* raises IndexError.
get_actions_for_instance(feed, created_at) ==
  LET acts == SortByTime(FilterRelevant(ParseFeed(feed)))
  IN IF acts = <<>>
     THEN [err |-> "IndexError", raised_in |-> "get_actions_for_instance",
           actions |-> <<>>]
     ELSE [err |-> "none", raised_in |-> "none",
           actions |-> WithCreate(acts, created_at)]

\* ---------------------------------------- get_charge_intervals_for_instance
\* InvalidRange rejecting the empty window too.
InvalidRangeOrEmpty(s, e) == e <= s

InvalidRange(s, e) == e < s

DropAfterEnd(acts, e) == SelectSeq(acts, LAMBDA a : a.time < e)

DropBeforeStart(acts, s) == SelectSeq(acts, LAMBDA a : a.time >= s)

\* ScanStartingState stopping at the first action at or before s.
ScanFirstWins(acts, i, s, state) ==
  IF i > Len(acts) THEN state
  ELSE IF acts[i].time <= s THEN ACTION_TO_STATE_LOOKUP[acts[i].action]
  ELSE state

\* The loop of lines 90-94: the state of the last action at or before s,
\* stopping at the first action after s.
RECURSIVE ScanStartingState(_, _, _, _)
ScanStartingState(acts, i, s, state) ==
  IF i > Len(acts) THEN state
  ELSE IF acts[i].time <= s
       THEN ScanStartingState(acts, i + 1, s, ACTION_TO_STATE_LOOKUP[acts[i].action])
       ELSE state

\* StartingState answering not_yet_created before the first action.
StartingStateNotYetCreated(acts, s) ==
  IF s <= acts[1].time THEN "not_yet_created"
  ELSE ScanStartingState(acts, 1, s, "")

StartingState(acts, s) ==
  IF s <= acts[1].time THEN "deleted" ELSE ScanStartingState(acts, 1, s, "")

\* BuildIntervals without the interval from s to the first action.
BuildIntervalsNoLead(acts, s, e, starting_state) ==
  IF Len(acts) = 0
  THEN << [start |-> s, end |-> e, state |-> starting_state] >>
  ELSE [i \in 1..Len(acts) |->
          [start |-> acts[i].time,
           end |-> IF i = Len(acts) THEN e ELSE acts[i + 1].time,
           state |-> ACTION_TO_STATE_LOOKUP[acts[i].action]]]

BuildIntervals(acts, s, e, starting_state) ==
  IF Len(acts) = 0
  THEN << [start |-> s, end |-> e, state |-> starting_state] >>
  ELSE << [start |-> s, end |-> acts[1].time, state |-> starting_state] >>
       \o [i \in 1..Len(acts) |->
             [start |-> acts[i].time,
              end |-> IF i = Len(acts) THEN e ELSE acts[i + 1].time,
              state |-> ACTION_TO_STATE_LOOKUP[acts[i].action]]]

get_charge_intervals_for_instance(feed, created_at, s, e) ==
  IF InvalidRange(s, e)
  THEN [err |-> "ValueError", raised_in |-> "get_charge_intervals_for_instance",
        fetched |-> FALSE, actions |-> <<>>, intervals |-> <<>>]
  ELSE
    LET got == get_actions_for_instance(feed, created_at)
        inWindow == DropAfterEnd(got.actions, e)
    IN IF got.err # "none"
       THEN [err |-> got.err, raised_in |-> got.raised_in, fetched |-> TRUE,
             actions |-> <<>>, intervals |-> <<>>]
       ELSE IF Len(inWindow) = 0
       THEN [err |-> "Exception", raised_in |-> "get_charge_intervals_for_instance",
             fetched |-> TRUE, actions |-> got.actions, intervals |-> <<>>]
       ELSE [err |-> "none", raised_in |-> "none", fetched |-> TRUE,
             actions |-> got.actions,
             intervals |-> BuildIntervals(DropBeforeStart(inWindow, s), s, e,
                                          StartingState(inWindow, s))]

\* -------------------------------------------- get_total_charge_for_instance
\* str.index("."): the 0-based index of the first "."; -1 stands for the
\* ValueError raised when there is none.
RECURSIVE IndexFrom(_, _, _)
IndexFrom(name, ch, i) ==
  IF i > Len(name) THEN -1
  ELSE IF name[i] = ch THEN i - 1
  ELSE IndexFrom(name, ch, i + 1)

Index(name, ch) == IndexFrom(name, ch, 1)

\* original_name[:k]
Prefix(name, k) == SubSeq(name, 1, k)

\* (interval["end"] - interval["start"]).total_seconds()
TotalSeconds(interval) == (interval.end - interval.start) * TickSeconds

\* IntervalCharge with the duration truncated to whole hours.
IntervalChargeWholeHours(interval, vcpus, flavor_prefix) ==
  ((TotalSeconds(interval) \div SecondsPerHour) * SecondsPerHour)
    * (STATE_CHARGE_MULTIPLIERS[interval.state] * vcpus
         * FLAVOR_TYPE_CHARGE_MULTIPLIERS[flavor_prefix])

\* interval_duration * total_multiplier, as a numerator over ChargeUnit.
IntervalCharge(interval, vcpus, flavor_prefix) ==
  TotalSeconds(interval)
    * (STATE_CHARGE_MULTIPLIERS[interval.state] * vcpus
         * FLAVOR_TYPE_CHARGE_MULTIPLIERS[flavor_prefix])

\* The loop of lines 132-138 up to interval i.
RECURSIVE ChargeLoop(_, _, _, _)
ChargeLoop(ivs, i, vcpus, flavor_prefix) ==
  IF i = 0 THEN 0
  ELSE ChargeLoop(ivs, i - 1, vcpus, flavor_prefix)
         + IntervalCharge(ivs[i], vcpus, flavor_prefix)

\* The first table lookup of the loop that misses raises KeyError.
LookupMisses(ivs, flavor_prefix) ==
  \E i \in 1..Len(ivs) :
     \/ ivs[i].state \notin DOMAIN STATE_CHARGE_MULTIPLIERS
     \/ flavor_prefix \notin DOMAIN FLAVOR_TYPE_CHARGE_MULTIPLIERS

get_total_charge_for_instance(feed, srv, s, e) ==
  LET got == get_charge_intervals_for_instance(feed, srv.created_at, s, e)
      dot == Index(srv.flavor.original_name, ".")
      flavor_prefix == Prefix(srv.flavor.original_name, dot)
      failed(kind) ==
        [err |-> kind, raised_in |-> "get_total_charge_for_instance",
         fetched |-> got.fetched, actions |-> got.actions,
         intervals |-> got.intervals, asked |-> TRUE, total_charge |-> 0]
  IN IF got.err # "none"
     THEN [err |-> got.err, raised_in |-> got.raised_in, fetched |-> got.fetched,
           actions |-> got.actions, intervals |-> got.intervals,
           asked |-> FALSE, total_charge |-> 0]
     ELSE IF dot < 0 THEN failed("ValueError")
     ELSE IF LookupMisses(got.intervals, flavor_prefix) THEN failed("KeyError")
     ELSE [err |-> "none", raised_in |-> "none", fetched |-> got.fetched,
           actions |-> got.actions, intervals |-> got.intervals,
           asked |-> TRUE,
           total_charge |->
             ChargeLoop(got.intervals, Len(got.intervals), srv.flavor.vcpus,
                        flavor_prefix)]

\* ------------------------------------------------------------ state machine
FeedRecords == [action : FeedKinds, start_time : Times]

Flavors == [original_name : FlavorNames, vcpus : VcpuCounts]

\* No flavor was read.
NoFlavor == [original_name |-> <<>>, vcpus |-> 0]

Init ==
  /\ server_actions = <<>>
  /\ server_created_at \in Times
  /\ flavor = NoFlavor
  /\ call = "none"
  /\ start = 0
  /\ end = 0
  /\ fetched = FALSE
  /\ actions = <<>>
  /\ intervals = <<>>
  /\ total_charge = 0
  /\ err = "none"
  /\ raised_in = "none"

\* The cloud records one more action of the instance in its feed.
RecordServerAction(r) ==
  /\ call = "none"
  /\ Len(server_actions) < MaxLen
  /\ server_actions' = Append(server_actions, r)
  /\ UNCHANGED <<server_created_at, flavor, call, start, end, fetched,
                 actions, intervals, total_charge, err, raised_in>>

GetActionsForInstance ==
  /\ call = "none"
  /\ LET got == get_actions_for_instance(server_actions, server_created_at)
     IN /\ call' = "get_actions_for_instance"
        /\ fetched' = TRUE
        /\ actions' = got.actions
        /\ err' = got.err
        /\ raised_in' = got.raised_in
  /\ UNCHANGED <<server_actions, server_created_at, flavor, start, end,
                 intervals, total_charge>>

GetChargeIntervalsForInstance(s, e) ==
  /\ call = "none"
  /\ LET got == get_charge_intervals_for_instance(server_actions,
                                                  server_created_at, s, e)
     IN /\ call' = "get_charge_intervals_for_instance"
        /\ start' = s
        /\ end' = e
        /\ fetched' = got.fetched
        /\ actions' = got.actions
        /\ intervals' = got.intervals
        /\ err' = got.err
        /\ raised_in' = got.raised_in
  /\ UNCHANGED <<server_actions, server_created_at, flavor, total_charge>>

\* f is the flavor the instance has when the call asks for its server record
\* (line 129); a call that raised before that line asked for none.
GetTotalChargeForInstance(s, e, f) ==
  /\ call = "none"
  /\ LET srv == [created_at |-> server_created_at, flavor |-> f]
         got == get_total_charge_for_instance(server_actions, srv, s, e)
     IN /\ call' = "get_total_charge_for_instance"
        /\ flavor' = IF got.asked THEN f ELSE NoFlavor
        /\ start' = s
        /\ end' = e
        /\ fetched' = got.fetched
        /\ actions' = got.actions
        /\ intervals' = got.intervals
        /\ total_charge' = got.total_charge
        /\ err' = got.err
        /\ raised_in' = got.raised_in
  /\ UNCHANGED <<server_actions, server_created_at>>

Next ==
  \/ \E r \in FeedRecords : RecordServerAction(r)
  \/ GetActionsForInstance
  \/ \E s \in Times, e \in Times : GetChargeIntervalsForInstance(s, e)
  \/ \E s \in Times, e \in Times, f \in Flavors : GetTotalChargeForInstance(s, e, f)

Spec == Init /\ [][Next]_vars

\* ------------------------------------------------------------------ claims
IntervalsCalled ==
  call \in {"get_charge_intervals_for_instance", "get_total_charge_for_instance"}

\* get_charge_intervals_for_instance returned to the call.
IntervalsReturned ==
  /\ IntervalsCalled
  /\ \/ err = "none"
     \/ raised_in = "get_total_charge_for_instance"

ChargeReturned == call = "get_total_charge_for_instance" /\ err = "none"

IsSortedByTime(acts) ==
  \A i \in 1..Len(acts), j \in 1..Len(acts) : i < j => acts[i].time <= acts[j].time

RelevantFeed ==
  SelectSeq(server_actions, LAMBDA r : r.action \in RELEVANT_EVENTS)

\* C1: whenever get_charge_intervals_for_instance returns, the list is not
\* empty, starts at start, ends at end, and each interval ends where the next
\* one starts.
C1_IntervalsChain ==
  IntervalsReturned =>
    /\ Len(intervals) >= 1
    /\ intervals[1].start = start
    /\ intervals[Len(intervals)].end = end
    /\ \A i \in 1..(Len(intervals) - 1) : intervals[i].end = intervals[i + 1].start

C1_Witness ==
  /\ IntervalsReturned
  /\ Len(intervals) = 3
  /\ start < intervals[1].end
  /\ intervals[3].start < end

\* C2: a window that lies entirely before the earliest action yields the one
\* interval [start, end) in state deleted.
C2_WindowBeforeHistoryIsDeleted ==
  ( /\ call = "get_charge_intervals_for_instance"
    /\ start <= end
    /\ actions # <<>>
    /\ \A i \in 1..Len(actions) : end <= actions[i].time )
  => /\ err = "none"
     /\ intervals = << [start |-> start, end |-> end, state |-> "deleted"] >>

\* C3: a total charge that is returned is never negative.
C3_ChargeNonNegative == ChargeReturned => total_charge >= 0

\* C4: every interval returned has start <= end.
C4_IntervalsForward ==
  IntervalsReturned =>
    \A i \in 1..Len(intervals) : intervals[i].start <= intervals[i].end

\* tail is the relevant feed sorted by time, equal times in feed order.
IsStableSortOf(tail, feed) ==
  /\ Len(tail) = Len(feed)
  /\ \E p \in [1..Len(feed) -> 1..Len(feed)] :
       /\ \A i \in 1..Len(feed) : tail[i].action = feed[p[i]].action
                                 /\ tail[i].time = feed[p[i]].start_time
       /\ \A i \in 1..Len(feed), j \in 1..Len(feed) :
            i < j => \/ tail[i].time < tail[j].time
                     \/ tail[i].time = tail[j].time /\ p[i] < p[j]

\* C5: what get_actions_for_instance returns starts with a create and holds
\* relevant kinds only; it is the relevant feed sorted by time when that
\* starts with a create, and otherwise that list behind one create at
\* created_at.
C5_NormalizedStartsWithCreate ==
  (call = "get_actions_for_instance" /\ err = "none") =>
    LET n == Len(RelevantFeed)
        synthesized == Len(actions) = n + 1
        tail == IF synthesized THEN Tail(actions) ELSE actions
    IN /\ n >= 1
       /\ Len(actions) \in {n, n + 1}
       /\ actions[1].action = "create"
       /\ \A i \in 1..Len(actions) : actions[i].action \in RELEVANT_EVENTS
       /\ IsStableSortOf(tail, RelevantFeed)
       /\ synthesized <=> tail[1].action # "create"
       /\ synthesized =>
            actions[1] = [action |-> "create", time |-> server_created_at]

C5_Witness ==
  /\ call = "get_actions_for_instance"
  /\ server_actions = << [action |-> "stop", start_time |-> 3] >>
  /\ server_created_at = 0
  /\ actions = << [action |-> "create", time |-> 0],
                  [action |-> "stop", time |-> 3] >>

\* C6: the invalid-range error is raised exactly when end < start, before the
\* history is fetched and with no intervals returned.
C6_InvalidRangeIffEndBeforeStart ==
  IntervalsCalled =>
    /\ (err = "ValueError" /\ raised_in = "get_charge_intervals_for_instance")
         <=> end < start
    /\ end < start => ~fetched /\ intervals = <<>> /\ actions = <<>>

C6_Witness ==
  /\ call = "get_charge_intervals_for_instance"
  /\ end < start
  /\ RelevantFeed = <<>>
  /\ err = "ValueError"

\* The state the history gives the instance at instant t.
StateAt(acts, t) ==
  LET at == {j \in 1..Len(acts) : acts[j].time <= t}
  IN IF at = {} THEN "deleted"
     ELSE ACTION_TO_STATE_LOOKUP[
            acts[CHOOSE j \in at : \A k \in at : k <= j].action]

\* C7: for a history sorted by time, an interval of non-zero duration carries
\* the state of the last action at or before the interval's start, and
\* deleted when there is none.
C7_StateOfLastActionBefore ==
  (IntervalsReturned /\ IsSortedByTime(actions)) =>
    \A i \in 1..Len(intervals) :
       intervals[i].start < intervals[i].end =>
         intervals[i].state = StateAt(actions, intervals[i].start)

C7_Witness ==
  /\ IntervalsReturned
  /\ actions = << [action |-> "create", time |-> 0],
                  [action |-> "stop", time |-> 2] >>
  /\ intervals = << [start |-> 1, end |-> 2, state |-> "active"],
                    [start |-> 2, end |-> 3, state |-> "stopped"] >>

RECURSIVE SumOver(_, _)
SumOver(S, f) ==
  IF S = {} THEN 0
  ELSE LET x == CHOOSE y \in S : TRUE IN f[x] + SumOver(S \ {x}, f)

FlavorFamily == Prefix(flavor.original_name, Index(flavor.original_name, "."))

\* C8: the total charge is the sum over the intervals of hours * state
\* multiplier * vcpus * flavor family multiplier, the hours not truncated;
\* total_charge / ChargeUnit is that sum.
C8_ChargeIsSumOfContributions ==
  ChargeReturned =>
    LET contribution ==
          [i \in 1..Len(intervals) |->
             (intervals[i].end - intervals[i].start) * TickSeconds
               * STATE_CHARGE_MULTIPLIERS[intervals[i].state]
               * flavor.vcpus * FLAVOR_TYPE_CHARGE_MULTIPLIERS[FlavorFamily]]
    IN /\ total_charge = SumOver(1..Len(intervals), contribution)
       /\ \A i \in 1..Len(intervals) :
            intervals[i].start = intervals[i].end => contribution[i] = 0

\* One hour active, 2 vcpus, family g3: 1 * 1 * 2 * 2 = 4.
C8_Witness ==
  /\ ChargeReturned
  /\ intervals = << [start |-> 1, end |-> 3, state |-> "active"] >>
  /\ flavor = [original_name |-> <<"g", "3", ".", "s">>, vcpus |-> 2]
  /\ total_charge = 4 * ChargeUnit

EmittedStates == {"active", "deleted", "suspended", "shelved_offloaded", "stopped"}

\* C10: every interval returned carries one of active, deleted, suspended,
\* shelved_offloaded, stopped, so the state multiplier lookup never misses.
C10_EmittedStates ==
  /\ \A k \in RELEVANT_EVENTS : ACTION_TO_STATE_LOOKUP[k] \in EmittedStates
  /\ EmittedStates \subseteq DOMAIN STATE_CHARGE_MULTIPLIERS
  /\ IntervalsReturned =>
       \A i \in 1..Len(intervals) : intervals[i].state \in EmittedStates
  /\ (call = "get_total_charge_for_instance" /\ err = "KeyError") =>
       FlavorFamily \notin DOMAIN FLAVOR_TYPE_CHARGE_MULTIPLIERS

C10_Witness ==
  /\ IntervalsReturned
  /\ Len(intervals) = 2
  /\ intervals[1].state = "deleted"
  /\ intervals[1].start < intervals[1].end
  /\ intervals[2].state = "stopped"

====
